---- MODULE Spec2Model ----
(***************************************************************************)
(* Calendar heat map of daily returns (calendar_heatmap.py and its variant *)
(* calendar_heatmap_test.py).  The script is a one-shot pipeline: fetch a  *)
(* frame of prices, compute daily returns, lay the months of the series    *)
(* out on a grid of panels, draw one weekday calendar per month, add a     *)
(* colour bar and save the figure.                                         *)
(*                                                                         *)
(* Returns are integers in hundredths of a percent (250 is 2.50%).  A      *)
(* colour is a triple <<r, g, b>> of integers over the denominator         *)
(* ColourDen, so that the interpolation of the colour map is exact.  A     *)
(* string is a sequence of characters, each a string of its own; a         *)
(* character that cannot be written in a string of the model is written    *)
(* as its Python escape ("\\x0b" is the one character '\x0b').              *)
(***************************************************************************)
EXTENDS Integers, Sequences, FiniteSets

VARIABLES
    script,     \* which of the two source files runs: "main" or "test"
    pc,         \* position of the script
    columns,    \* column names of the fetched frame (flattened)
    data,       \* the frame: a sequence of rows, in date order
    months,     \* sorted list of the (year, month) pairs of the series
    n_rows,     \* rows of the panel grid
    axes,       \* the flattened array of panels
    idx,        \* loop variable of the per-month loop (-1: not bound yet)
    legend,     \* the colour bar has been drawn
    saved,      \* the figure has been written by savefig
    val,        \* input of the colour-mapping specification
    color       \* its result

vars == <<script, pc, columns, data, months, n_rows, axes, idx, legend, saved,
          val, color>>

----------------------------------------------------------------------------
(* Bounds of the model *)

\* largest number of rows of the fetched frame
MaxRows == 6

\* largest number of dated values in the frame handed to draw_calendar alone
MaxEntries == 2

\* number of years, from FirstYear on, whose months are drawn alone
NumYears == 2

\* first of the years whose months are drawn alone
FirstYear == 2020

\* returns from -MaxAbsVal to MaxAbsVal hundredths are colour-mapped
MaxAbsVal == 1000

----------------------------------------------------------------------------
(* Program constants *)

RETURN_MIN == -5

RETURN_MAX == 5

n_cols == 4

\* entries of the colour map's lookup table
N == 256

\* a return of 1 percent, in the model's unit
Unit == 10 * 10

\* a float is its number of hundredths; NaN is the empty tuple where a value
\* may be missing (a column before dropna, a mean)
NaN == <<>>

----------------------------------------------------------------------------
(* Strings *)

Digit(d) == CASE d = 0 -> "0" [] d = 1 -> "1" [] d = 2 -> "2" [] d = 3 -> "3"
              [] d = 4 -> "4" [] d = 5 -> "5" [] d = 6 -> "6" [] d = 7 -> "7"
              [] d = 8 -> "8" [] d = 9 -> "9"

RECURSIVE Decimal(_)
\* str(n) of a natural number
Decimal(n) == IF n < 10 THEN <<Digit(n)>>
              ELSE Decimal(n \div 10) \o <<Digit(n % 10)>>

\* the format specification 02d, of a natural number
Pad2(n) == IF n < 10 THEN <<"0">> \o Decimal(n) ELSE Decimal(n)

----------------------------------------------------------------------------
(* float64: the values of the frame are IEEE doubles.  A double is         *)
(* [neg, m, e], the number m * 2^e with the sign neg; m is a natural       *)
(* number written in limbs of LimbBits bits, lowest first, without a       *)
(* highest 0, since it does not fit the integers of the model.  Every      *)
(* operation rounds to nearest, ties to even.  Overflow, subnormals and    *)
(* the sign of a zero sum do not occur for the returns of the model and    *)
(* are left out.                                                           *)

\* bits of the significand of a double
MantBits == 53

\* bits of a limb: the product of two limbs fits the integers of the model
LimbBits == 3 * 5

RECURSIVE Pow2(_)
Pow2(n) == IF n = 0 THEN 1 ELSE 2 * Pow2(n - 1)

Base == Pow2(LimbBits)

RECURSIVE Limbs(_)
\* a natural number in limbs
Limbs(n) == IF n = 0 THEN <<>> ELSE <<n % Base>> \o Limbs(n \div Base)

RECURSIVE LimbsValue(_)
\* the natural number some limbs write
LimbsValue(a) == IF a = <<>> THEN 0 ELSE Head(a) + Base * LimbsValue(Tail(a))

RECURSIVE BitLen(_)
\* the number of bits of a natural number
BitLen(n) == IF n = 0 THEN 0 ELSE 1 + BitLen(n \div 2)

\* the number of bits of a number in limbs
LimbsBitLen(a) ==
    IF a = <<>> THEN 0 ELSE (Len(a) - 1) * LimbBits + BitLen(a[Len(a)])

RECURSIVE Trim(_)
Trim(a) ==
    IF a = <<>> \/ a[Len(a)] # 0 THEN a ELSE Trim(SubSeq(a, 1, Len(a) - 1))

RestOf(a) == IF a = <<>> THEN a ELSE Tail(a)

LowOf(a) == IF a = <<>> THEN 0 ELSE Head(a)

RECURSIVE LimbsAddCarry(_, _, _)
LimbsAddCarry(a, b, c) ==
    IF a = <<>> /\ b = <<>> THEN (IF c = 1 THEN <<1>> ELSE <<>>)
    ELSE LET t == LowOf(a) + LowOf(b) + c
         IN  <<t % Base>> \o LimbsAddCarry(RestOf(a), RestOf(b), t \div Base)

LimbsAdd(a, b) == LimbsAddCarry(a, b, 0)

RECURSIVE LimbsSubBorrow(_, _, _)
LimbsSubBorrow(a, b, c) ==
    IF a = <<>> THEN <<>>
    ELSE LET t == LowOf(a) - LowOf(b) - c
         IN  <<(t + Base) % Base>>
               \o LimbsSubBorrow(RestOf(a), RestOf(b), IF t < 0 THEN 1 ELSE 0)

\* a - b, for a >= b
LimbsSub(a, b) == Trim(LimbsSubBorrow(a, b, 0))

LimbsLess(a, b) ==
    IF Len(a) # Len(b) THEN Len(a) < Len(b)
    ELSE \E i \in 1..Len(a) :
           /\ a[i] < b[i]
           /\ \A j \in (i + 1)..Len(a) : a[j] = b[j]

RECURSIVE LimbsMulCarry(_, _, _)
\* a * k + c, for k and c of one limb
LimbsMulCarry(a, k, c) ==
    IF a = <<>> THEN Limbs(c)
    ELSE LET t == Head(a) * k + c
         IN  <<t % Base>> \o LimbsMulCarry(Tail(a), k, t \div Base)

RECURSIVE LimbsDivMod(_, _)
\* quotient (with highest zeros) and remainder of a by k, for k of one limb
LimbsDivMod(a, k) ==
    IF a = <<>> THEN [q |-> <<>>, r |-> 0]
    ELSE LET high == LimbsDivMod(Tail(a), k)
             cur == high.r * Base + Head(a)
         IN  [q |-> <<cur \div k>> \o high.q, r |-> cur % k]

\* a * 2^s
Shl(a, s) ==
    IF a = <<>> THEN a
    ELSE [i \in 1..(s \div LimbBits) |-> 0]
           \o LimbsMulCarry(a, Pow2(s % LimbBits), 0)

\* a / 2^s rounded down, and whether nothing was cut
ShrFloor(a, s) ==
    LET w == s \div LimbBits
        cut == IF w < Len(a) THEN w ELSE Len(a)
        d == LimbsDivMod(SubSeq(a, cut + 1, Len(a)), Pow2(s % LimbBits))
    IN  [q |-> Trim(d.q),
         exact |-> d.r = 0 /\ \A i \in 1..cut : a[i] = 0]

IsOdd(a) == a # <<>> /\ a[1] % 2 = 1

\* a / 2^s rounded to the nearest natural number, ties to even; sticky says
\* that a stands for a number slightly larger than itself
ShrRound(a, s, sticky) ==
    IF s <= 0 THEN a
    ELSE LET f == ShrFloor(a, s - 1)
             q == ShrFloor(f.q, 1).q
             below == sticky \/ ~f.exact
         IN  IF IsOdd(f.q) /\ (below \/ IsOdd(q)) THEN LimbsAdd(q, <<1>>)
             ELSE q

\* the double nearest to a * 2^e (a little more with sticky)
Round53(neg, a, e, sticky) ==
    LET s == LimbsBitLen(a) - MantBits
    IN  IF s <= 0 THEN [neg |-> neg, m |-> a, e |-> e]
        ELSE [neg |-> neg, m |-> ShrRound(a, s, sticky), e |-> e + s]

FZero == [neg |-> FALSE, m |-> <<>>, e |-> 0]

\* float(k) of an integer below 2^31
FromInt(k) == [neg |-> k < 0, m |-> Limbs(IF k < 0 THEN -k ELSE k), e |-> 0]

\* x / n for an integer n > 0: the quotient is taken with enough bits for
\* the remainder to decide the rounding only as a sticky bit
FDivInt(x, n) ==
    IF x.m = <<>> THEN x
    ELSE LET guard == MantBits + 2 + BitLen(n)
             d == LimbsDivMod(Shl(x.m, guard), n)
         IN  Round53(x.neg, Trim(d.q), x.e - guard, d.r # 0)

\* x + y
FAdd(x, y) ==
    IF x.m = <<>> THEN y
    ELSE IF y.m = <<>> THEN x
    ELSE LET e == IF x.e < y.e THEN x.e ELSE y.e
             a == Shl(x.m, x.e - e)
             b == Shl(y.m, y.e - e)
         IN  IF x.neg = y.neg THEN Round53(x.neg, LimbsAdd(a, b), e, FALSE)
             ELSE IF a = b THEN FZero
             ELSE IF LimbsLess(a, b) THEN Round53(y.neg, LimbsSub(b, a), e, FALSE)
             ELSE Round53(x.neg, LimbsSub(a, b), e, FALSE)

\* the double of a return of k hundredths of a percent, k / 100
FromHundredths(k) == FDivInt(FromInt(k), Unit)

\* the digits of the format .2f: x * 100 rounded to the nearest natural
\* number, ties (which only a binary fraction can be) to even
Hundredths(x) ==
    LET t == LimbsMulCarry(x.m, Unit, 0)
    IN  LimbsValue(IF x.e >= 0 THEN Shl(t, x.e) ELSE ShrRound(t, -x.e, FALSE))

\* the format specifications .2f and +.2f of a double or NaN: sign, integer
\* part, point, two decimals
Format2f(x, plus) ==
    IF x = NaN THEN (IF plus THEN <<"+">> ELSE <<>>) \o <<"n", "a", "n">>
    ELSE LET h == Hundredths(x)
         IN  (IF x.neg THEN <<"-">> ELSE IF plus THEN <<"+">> ELSE <<>>)
             \o Decimal(h \div Unit) \o <<".">> \o Pad2(h % Unit)

----------------------------------------------------------------------------
(* Dates *)

\* the key of a date: f"{year}-{month:02d}-{day:02d}", and strftime('%Y-%m-%d')
DateStr(year, month, day) ==
    Decimal(year) \o <<"-">> \o Pad2(month) \o <<"-">> \o Pad2(day)

----------------------------------------------------------------------------
(* The calendar module: calendar.Calendar(firstweekday=0) *)

isleap(year) == year % 4 = 0 /\ (year % 100 # 0 \/ year % 400 = 0)

mdays(year, month) ==
    IF month = 2 THEN (IF isleap(year) THEN 29 ELSE 28)
    ELSE IF month \in {4, 6, 9, 11} THEN 30 ELSE 31

RECURSIVE DaysBeforeMonth(_, _)
DaysBeforeMonth(year, month) ==
    IF month = 1 THEN 0
    ELSE DaysBeforeMonth(year, month - 1) + mdays(year, month - 1)

DaysBeforeYear(year) ==
    LET y == year - 1
    IN  y * 365 + y \div 4 - y \div 100 + y \div 400

\* datetime.date(year, month, day).weekday(): Monday is 0
weekday(year, month, day) ==
    (DaysBeforeYear(year) + DaysBeforeMonth(year, month) + day + 6) % 7

Zeros(n) == [i \in 1..n |-> 0]

\* the week taken to start on Sunday (firstweekday 6)
itermonthdays_sunday(year, month) ==
    LET day1 == weekday(year, month, 1)
        ndays == mdays(year, month)
        days_before == (day1 + 1) % 7
        days_after == (7 - ((days_before + ndays) % 7)) % 7
    IN  Zeros(days_before) \o [d \in 1..ndays |-> d] \o Zeros(days_after)

\* itermonthdays: zeros for the days of the first week before the 1st, the
\* days of the month, zeros to the end of the last week.  Python's
\* (firstweekday - day1 - ndays) % 7 is never negative.
itermonthdays(year, month) ==
    LET day1 == weekday(year, month, 1)
        ndays == mdays(year, month)
        days_before == day1 % 7
        days_after == (7 - ((day1 + ndays) % 7)) % 7
    IN  Zeros(days_before) \o [d \in 1..ndays |-> d] \o Zeros(days_after)

\* monthdayscalendar: the days of itermonthdays in rows of 7
monthdayscalendar(year, month) ==
    LET days == itermonthdays(year, month)
    IN  [w \in 1..(Len(days) + 6) \div 7 |->
            SubSeq(days, (w - 1) * 7 + 1,
                   IF w * 7 < Len(days) THEN w * 7 ELSE Len(days))]

----------------------------------------------------------------------------
(* Colours: matplotlib's LinearSegmentedColormap and Normalize *)

\* a channel value y is the integer y * YDen; a colour component is an
\* integer over ColourDen
YDen == 255 * 20

XDen == 2 * 5

SegDen == 4 * 5

ColourDen == (N - 1) * SegDen * YDen

White == <<ColourDen, ColourDen, ColourDen>>

\* a stop <<x, y0, y1>> of cdict, x in tenths and y in 1/YDen
Stop(x, y0, y1) == <<x, y0, y1>>

\* calendar_heatmap.py: cdict, 0.55 is 2805/5100
cdict ==
    [red   |-> <<Stop(0, 2805, 2805), Stop(5, YDen, YDen), Stop(10, 0, 0)>>,
     green |-> <<Stop(0, 0, 0), Stop(5, YDen, YDen), Stop(10, 2805, 2805)>>,
     blue  |-> <<Stop(0, 0, 0), Stop(5, YDen, YDen), Stop(10, 0, 0)>>]

\* a byte of a hex colour, c/255 as c * 20 over YDen
Hex(c) == c * (YDen \div 255)

\* calendar_heatmap_test.py: colors, as <<position in tenths, r, g, b>>
colors ==
    << <<0, 139, 0, 0>>,         \* '#8B0000'
       <<4, 255, 99, 71>>,       \* '#FF6347'
       <<5, 255, 255, 255>>,     \* '#FFFFFF'
       <<6, 144, 238, 144>>,     \* '#90EE90'
       <<10, 0, 100, 0>> >>      \* '#006400'

\* LinearSegmentedColormap.from_list: one stop (x, c, c) per colour and channel
from_list ==
    [red   |-> [i \in 1..Len(colors) |->
                  Stop(colors[i][1], Hex(colors[i][2]), Hex(colors[i][2]))],
     green |-> [i \in 1..Len(colors) |->
                  Stop(colors[i][1], Hex(colors[i][3]), Hex(colors[i][3]))],
     blue  |-> [i \in 1..Len(colors) |->
                  Stop(colors[i][1], Hex(colors[i][4]), Hex(colors[i][4]))]]

segmentdata(which) == IF which = "main" THEN cdict ELSE from_list

\* numpy.searchsorted(x, i/(N-1)), side left: the number of stops whose
\* position is below i/(N-1)
searchsorted(stops, i) ==
    Cardinality({j \in 1..Len(stops) : stops[j][1] * (N - 1) < XDen * i})

\* _create_lookup_table: entry i (0..N-1) of one channel's table, the linear
\* interpolation at i/(N-1) between the stops around it
create_lookup_table(stops, i) ==
    IF i = 0 THEN stops[1][3] * (N - 1) * SegDen
    ELSE IF i = N - 1 THEN stops[Len(stops)][2] * (N - 1) * SegDen
    ELSE LET ind == searchsorted(stops, i) + 1
             lo == stops[ind - 1]
             hi == stops[ind]
             width == hi[1] - lo[1]
         IN  (lo[3] * (N - 1) * width
                + (hi[2] - lo[3]) * (XDen * i - (N - 1) * lo[1]))
             * (SegDen \div width)

lut(which, i) ==
    LET seg == segmentdata(which)
    IN  <<create_lookup_table(seg.red, i),
          create_lookup_table(seg.green, i),
          create_lookup_table(seg.blue, i)>>

\* Normalize(vmin=RETURN_MIN, vmax=RETURN_MAX), clip=False: the fraction
\* <<numerator, denominator>> of (value - vmin) / (vmax - vmin)
norm(value) ==
    <<value - RETURN_MIN * Unit, (RETURN_MAX - RETURN_MIN) * Unit>>

\* the index wrapped around the table instead of the under and over colours
cmap_wrap(which, t) == lut(which, ((t[1] * N) \div t[2]) % N)

\* Colormap.__call__ on a float t: the index t * N truncated, N itself taken
\* as N - 1, below 0 the under colour (entry 0), above N - 1 the over
\* colour (entry N - 1)
cmap(which, t) ==
    LET xa == t[1] * N
    IN  IF xa < 0 THEN lut(which, 0)
        ELSE IF xa = N * t[2] THEN lut(which, N - 1)
        ELSE IF xa \div t[2] > N - 1 THEN lut(which, N - 1)
        ELSE lut(which, xa \div t[2])

\* max(min(val, RETURN_MAX), RETURN_MIN), the test variant's clipped_val
clipped_val(value) ==
    LET lowered == IF value < RETURN_MAX * Unit THEN value
                   ELSE RETURN_MAX * Unit
    IN  IF lowered > RETURN_MIN * Unit THEN lowered ELSE RETURN_MIN * Unit

\* the colour draw_calendar gives a cell with a value
cell_color(which, value) ==
    IF which = "main" THEN cmap(which, norm(value))
    ELSE cmap(which, norm(clipped_val(value)))

\* the label written from the clipped value
cell_label_clipped(which, day, value) ==
    Decimal(day) \o <<"\n">>
      \o Format2f(FromHundredths(clipped_val(value)), which = "test")
      \o <<"%">>

\* the label draw_calendar gives a cell with a value
cell_label(which, day, value) ==
    Decimal(day) \o <<"\n">>
      \o Format2f(FromHundredths(value), which = "test") \o <<"%">>

----------------------------------------------------------------------------
(* draw_calendar *)

\* an Axes as plt.subplots creates it: nothing drawn, axis shown.  The y
\* limits are in halves of a cell (the upper limit of draw_calendar is 0.5).
BlankAxes ==
    [patches |-> <<>>, texts |-> <<>>, xlim |-> <<0, 1>>, ylim |-> <<0, 2>>,
     title |-> <<>>, axis |-> "on"]

\* date_str in df_month.index
InIndex(df_month, date_str) ==
    \E i \in 1..Len(df_month) : df_month[i].Date_str = date_str

\* df_month.loc[date_str, 'Daily Return %'], of a key the index holds once
Loc(df_month, date_str) ==
    LET i == CHOOSE j \in 1..Len(df_month) : df_month[j].Date_str = date_str
    IN  df_month[i].ret

\* a date without a value coloured as the value 0
DrawCell_zero(which, year, month, df_month, week_idx, day_idx, day) ==
    LET date_str == DateStr(year, month, day)
        found == InIndex(df_month, date_str)
    IN  [xy |-> <<day_idx, -week_idx>>,
         day |-> day,
         facecolor |-> IF found THEN cell_color(which, Loc(df_month, date_str))
                       ELSE cell_color(which, 0),
         label |-> IF found
                   THEN cell_label(which, day, Loc(df_month, date_str))
                   ELSE <<>>]

\* the body of the two loops of draw_calendar for one position of the month's
\* rows that is neither padding nor a weekend: the rectangle and its text
DrawCell(which, year, month, df_month, week_idx, day_idx, day) ==
    LET date_str == DateStr(year, month, day)
        found == InIndex(df_month, date_str)
    IN  [xy |-> <<day_idx, -week_idx>>,
         day |-> day,
         facecolor |-> IF found THEN cell_color(which, Loc(df_month, date_str))
                       ELSE White,
         label |-> IF found
                   THEN cell_label(which, day, Loc(df_month, date_str))
                   ELSE <<>>]

\* the padding test left out
SkippedWeekendOnly(day_idx, day) == day_idx >= 5

\* the weekend test left out
SkippedPaddingOnly(day_idx, day) == day = 0

\* day == 0: continue; day_idx >= 5: continue
Skipped(day_idx, day) == day = 0 \/ day_idx >= 5

\* draw_calendar(ax, year, month, df_month, norm, cmap): the Axes after the
\* call.  ax.cla() clears it first; the positions are visited week by week,
\* Monday to Sunday.
draw_calendar(which, year, month, df_month) ==
    LET month_days == monthdayscalendar(year, month)
        positions == [p \in 1..(7 * Len(month_days)) |->
                        [week_idx |-> (p - 1) \div 7, day_idx |-> (p - 1) % 7]]
        DayAt(pos) == month_days[pos.week_idx + 1][pos.day_idx + 1]
        Kept(pos) == ~Skipped(pos.day_idx, DayAt(pos))
        kept == SelectSeq(positions, Kept)
        cells == [i \in 1..Len(kept) |->
                    DrawCell(which, year, month, df_month,
                             kept[i].week_idx, kept[i].day_idx, DayAt(kept[i]))]
    IN  [patches |-> cells,
         texts |-> <<>>,
         xlim |-> <<0, 5>>,
         ylim |-> <<-2 * Len(month_days), 1>>,
         title |-> <<month, year>>,
         axis |-> "off"]

----------------------------------------------------------------------------
(* The frame *)

Close == <<"C", "l", "o", "s", "e">>

High == <<"H", "i", "g", "h">>

Ticker == <<"X">>

UpperCase ==
    <<"A", "B", "C", "D", "E", "F", "G", "H", "I", "J", "K", "L", "M",
      "N", "O", "P", "Q", "R", "S", "T", "U", "V", "W", "X", "Y", "Z">>

LowerCase ==
    <<"a", "b", "c", "d", "e", "f", "g", "h", "i", "j", "k", "l", "m",
      "n", "o", "p", "q", "r", "s", "t", "u", "v", "w", "x", "y", "z">>

\* str.lower of one character (of ASCII)
lower(c) ==
    IF \E i \in 1..Len(UpperCase) : UpperCase[i] = c
    THEN LowerCase[CHOOSE i \in 1..Len(UpperCase) : UpperCase[i] = c]
    ELSE c

\* col.lower().startswith('close')
StartsWithClose(col) ==
    /\ Len(col) >= Len(Close)
    /\ \A i \in 1..Len(Close) : lower(col[i]) = lower(Close[i])

\* the characters str.strip() removes: those of str.isspace()
Whitespace ==
    { "\t", "\n", "\\x0b", "\f", "\r", "\\x1c", "\\x1d", "\\x1e", "\\x1f", " ",
      "\\x85", "\\xa0", "\\u1680", "\\u2000", "\\u2001", "\\u2002", "\\u2003",
      "\\u2004", "\\u2005", "\\u2006", "\\u2007", "\\u2008", "\\u2009", "\\u200a",
      "\\u2028", "\\u2029", "\\u202f", "\\u205f", "\\u3000" }

RECURSIVE strip(_)
\* str.strip(): without the whitespace at either end
strip(str) ==
    IF str = <<>> THEN str
    ELSE IF Head(str) \in Whitespace THEN strip(Tail(str))
    ELSE IF str[Len(str)] \in Whitespace
         THEN strip(SubSeq(str, 1, Len(str) - 1))
    ELSE str

RECURSIVE join(_)
\* ' '.join(levels)
join(levels) ==
    IF levels = <<>> THEN <<>>
    ELSE IF Len(levels) = 1 THEN levels[1]
    ELSE levels[1] \o <<" ">> \o join(Tail(levels))

\* ' '.join(map(str, col)).strip() of the levels of a MultiIndex column
Join(levels) == strip(join(levels))

\* the columns a download may carry: each column a tuple of levels when the
\* columns are a MultiIndex, a name otherwise
ColumnChoices ==
    { [multi |-> FALSE, cols |-> <<Close, High>>],
      [multi |-> TRUE, cols |-> << <<High, Ticker>>, <<Close, Ticker>> >>],
      [multi |-> TRUE,
       cols |-> << <<High, <<>> >>, << <<"C", "L", "O", "S", "E">>, <<>> >> >>],
      [multi |-> TRUE,
       cols |-> << << <<"\\x0b">> \o Close, Ticker>>, <<High, <<"\\x1f">> >> >>],
      [multi |-> FALSE, cols |-> <<High>>] }

\* lines 93-94: data.columns after flattening
Flatten(c) ==
    IF c.multi THEN [i \in 1..Len(c.cols) |-> Join(c.cols[i])] ELSE c.cols

possible_close_cols(cols) == SelectSeq(cols, StartsWithClose)

\* the dates a download may carry, in date order: weekdays, a Saturday and a
\* Sunday, a Friday and the Saturday after it in one month, six months over
\* two years
Dates ==
    << <<2023, 11, 30>>, <<2023, 12, 29>>, <<2023, 12, 30>>, <<2024, 1, 1>>,
       <<2024, 2, 29>>, <<2024, 3, 15>>, <<2024, 4, 7>> >>

\* the percentage changes a download may yield, in hundredths: their sum is
\* not exact in binary and their mean is halfway between two hundredths
Changes == {-299, 276}

\* the frames a download may return: rows in date order, each with the
\* percentage change of its close over the close of the row before (written
\* 0 for the first row, which has no row before)
Frames ==
    UNION { { [i \in 1..Cardinality(S) |->
                 LET k == CHOOSE j \in S : Cardinality({l \in S : l < j}) = i - 1
                 IN  [Date |-> Dates[k], pct |-> IF i = 1 THEN 0 ELSE f[k]]]
              : f \in [S -> Changes] }
            : S \in {T \in SUBSET (1..Len(Dates)) : Cardinality(T) <= MaxRows} }

\* lines 103-111: pct_change leaves the first row without a return, dropna
\* removes it, and the rows are indexed by Date_str
DailyReturns(frame) ==
    LET withret == [i \in 1..Len(frame) |->
                      [Date |-> frame[i].Date,
                       ret |-> IF i = 1 THEN NaN ELSE <<frame[i].pct>>,
                       Date_str |-> DateStr(frame[i].Date[1], frame[i].Date[2],
                                            frame[i].Date[3])]]
        NotNa(row) == row.ret # NaN
        kept == SelectSeq(withret, NotNa)
    IN  [i \in 1..Len(kept) |->
            [Date |-> kept[i].Date, ret |-> kept[i].ret[1],
             Date_str |-> kept[i].Date_str]]

\* data[(year == y) & (month == m)][['Daily Return %']]
MonthOf(frame, year, month) ==
    LET InMonth(row) == row.Date[1] = year /\ row.Date[2] = month
    IN  SelectSeq(frame, InMonth)

RECURSIVE SortedDescending(_)
\* the pairs sorted the wrong way round
SortedDescending(S) ==
    IF S = {} THEN <<>>
    ELSE LET most == CHOOSE a \in S : \A b \in S :
                        a[1] > b[1] \/ (a[1] = b[1] /\ a[2] >= b[2])
         IN  <<most>> \o SortedDescending(S \ {most})

RECURSIVE SortedSeq(_)
\* sorted(...) of a set of (year, month) pairs
SortedSeq(S) ==
    IF S = {} THEN <<>>
    ELSE LET least == CHOOSE a \in S : \A b \in S :
                         a[1] < b[1] \/ (a[1] = b[1] /\ a[2] <= b[2])
         IN  <<least>> \o SortedSeq(S \ {least})

\* line 113: sorted(set((d.year, d.month) for d in data['Date']))
MonthsOf(frame) ==
    SortedSeq({<<frame[i].Date[1], frame[i].Date[2]>> : i \in 1..Len(frame)})

RECURSIVE FoldAdd(_, _)
\* res += a[i], over the doubles of a in turn
FoldAdd(res, a) ==
    IF a = <<>> THEN res ELSE FoldAdd(FAdd(res, Head(a)), Tail(a))

\* numpy's sum of a float64 column (pairwise sum, up to 128 values): below
\* 8 values one after the other from 0.0; from 8 on, eight running sums
\* over the blocks of 8, added in pairs, then the values left over
PairwiseSum(a) ==
    IF Len(a) < 8 THEN FoldAdd(FZero, a)
    ELSE LET blocks == Len(a) \div 8
             r == [j \in 1..8 |->
                     FoldAdd(a[j], [b \in 1..(blocks - 1) |-> a[8 * b + j]])]
             res == FAdd(FAdd(FAdd(r[1], r[2]), FAdd(r[3], r[4])),
                         FAdd(FAdd(r[5], r[6]), FAdd(r[7], r[8])))
         IN  FoldAdd(res, SubSeq(a, 8 * blocks + 1, Len(a)))

\* Series.mean() of returns given in hundredths: the sum divided by the
\* count, NaN of no value
MeanOf(rets) ==
    IF Len(rets) = 0 THEN NaN
    ELSE FDivInt(PairwiseSum([i \in 1..Len(rets) |-> FromHundredths(rets[i])]),
                 Len(rets))

\* df_month['Daily Return %'].mean()
Mean(df_month) == MeanOf([i \in 1..Len(df_month) |-> df_month[i].ret])

\* line 131: f"Avg Daily Return:\n{avg_return:.2f}%", the number and the sign
AvgText(df_month) ==
    LET avg_return == Mean(df_month)
    IN  Format2f(avg_return, FALSE) \o <<"%">>

----------------------------------------------------------------------------
(* The script *)

Scripts == {"main", "test"}

Init ==
    /\ script \in Scripts
    /\ pc = "download"
    /\ columns = <<>>
    /\ data = <<>>
    /\ months = <<>>
    /\ n_rows = 0
    /\ axes = <<>>
    /\ idx = -1
    /\ legend = FALSE
    /\ saved = FALSE
    /\ val = 0
    /\ color = <<>>

\* line 86: data = yf.download(...)
Download ==
    /\ pc = "download"
    /\ \E frame \in Frames, c \in ColumnChoices :
          /\ data' = frame
          /\ columns' = c
    /\ pc' = "empty"
    /\ UNCHANGED <<script, months, n_rows, axes, idx, legend, saved, val, color>>

\* lines 88-90: if data.empty: print(...); exit()
CheckEmpty ==
    /\ pc = "empty"
    /\ pc' = IF Len(data) = 0 THEN "exit" ELSE "columns"
    /\ UNCHANGED <<script, columns, data, months, n_rows, axes, idx, legend,
                   saved, val, color>>

\* the script going on without a close column
FindClose_noexit ==
    /\ pc = "columns"
    /\ columns' = [multi |-> FALSE, cols |-> Flatten(columns)]
    /\ pc' = "returns"
    /\ UNCHANGED <<script, data, months, n_rows, axes, idx, legend, saved,
                   val, color>>

\* lines 92-101: flatten the columns, find the close column or exit()
FindClose ==
    /\ pc = "columns"
    /\ columns' = [multi |-> FALSE, cols |-> Flatten(columns)]
    /\ pc' = IF possible_close_cols(Flatten(columns)) # <<>> THEN "returns"
             ELSE "exit"
    /\ UNCHANGED <<script, data, months, n_rows, axes, idx, legend, saved,
                   val, color>>

\* lines 103-111: the daily returns, without the rows that have none
ComputeReturns ==
    /\ pc = "returns"
    /\ data' = DailyReturns(data)
    /\ pc' = "layout"
    /\ UNCHANGED <<script, columns, months, n_rows, axes, idx, legend, saved,
                   val, color>>

\* lines 113-122: the months, the rows of the grid, plt.subplots and flatten.
\* For a grid of 0 rows plt.subplots raises ValueError, or, in the releases
\* of matplotlib that do not check the number of rows, returns an empty
\* array of panels.
Layout ==
    /\ pc = "layout"
    /\ months' = MonthsOf(data)
    /\ n_rows' = (Len(MonthsOf(data)) + n_cols - 1) \div n_cols
    /\ IF n_rows' = 0
       THEN /\ pc' \in {"ValueError", "loop"}
            /\ axes' = <<>>
       ELSE /\ pc' = "loop"
            /\ axes' = [i \in 1..(n_rows' * n_cols) |-> BlankAxes]
    /\ UNCHANGED <<script, columns, data, idx, legend, saved, val, color>>

\* lines 124-132 (124-127 of the test variant): one pass of the loop over
\* enumerate(months); the main script adds the average below the grid
DrawMonth ==
    /\ pc = "loop"
    /\ idx + 1 < Len(months)
    /\ idx' = idx + 1
    /\ LET year == months[idx' + 1][1]
           month == months[idx' + 1][2]
           df_month == MonthOf(data, year, month)
           ax == draw_calendar(script, year, month, df_month)
           month_weeks == Len(monthdayscalendar(year, month))
           txt == [s |-> AvgText(df_month), below |-> month_weeks]
       IN  axes' = [axes EXCEPT ![idx' + 1] =
                      IF script = "main" THEN [ax EXCEPT !.texts = <<txt>>]
                      ELSE ax]
    /\ UNCHANGED <<script, pc, columns, data, months, n_rows, legend, saved,
                   val, color>>

\* lines 134-135: for j in range(idx + 1, len(axes)): axes[j].axis('off').
\* After a loop of no pass idx is not bound and its use raises NameError.
HideUnused ==
    /\ pc = "loop"
    /\ idx + 1 = Len(months)
    /\ IF Len(months) = 0
       THEN /\ pc' = "NameError"
            /\ axes' = axes
       ELSE /\ pc' = "colorbar"
            /\ axes' = [j \in 1..Len(axes) |->
                          IF j - 1 >= idx + 1
                          THEN [axes[j] EXCEPT !.axis = "off"]
                          ELSE axes[j]]
    /\ UNCHANGED <<script, columns, data, months, n_rows, idx, legend, saved,
                   val, color>>

\* lines 137-144: the colour bar, the margins and the title of the figure
Colorbar ==
    /\ pc = "colorbar"
    /\ legend' = TRUE
    /\ pc' = "savefig"
    /\ UNCHANGED <<script, columns, data, months, n_rows, axes, idx, saved,
                   val, color>>

\* lines 146-148: plt.savefig(output_path, dpi=300)
SaveFig ==
    /\ pc = "savefig"
    /\ saved' = TRUE
    /\ pc' = "done"
    /\ UNCHANGED <<script, columns, data, months, n_rows, axes, idx, legend,
                   val, color>>

\* line 119: axes.flatten(), the panel of row r and column c of the grid
PanelAt(r, c) == axes[r * n_cols + c + 1]

Next ==
    \/ Download
    \/ CheckEmpty
    \/ FindClose
    \/ ComputeReturns
    \/ Layout
    \/ DrawMonth
    \/ HideUnused
    \/ Colorbar
    \/ SaveFig

Spec == Init /\ [][Next]_vars

----------------------------------------------------------------------------
(* draw_calendar alone, on every month of some years *)

Years == FirstYear..(FirstYear + NumYears - 1)

\* the returns of the frames handed to draw_calendar: below the domain of
\* the colour scale, inside it, above it
CalValues == <<-700, 250, 700>>

\* the frames of one month: up to MaxEntries consecutive days from a first
\* day on, weekends included, with the values of CalValues in turn
MonthFrames(year, month) ==
    { [i \in 1..n |->
         [Date |-> <<year, month, first + i - 1>>,
          ret |-> CalValues[((v + i) % Len(CalValues)) + 1],
          Date_str |-> DateStr(year, month, first + i - 1)]]
      : <<first, n, v>> \in
          { t \in (1..mdays(year, month)) \X (0..MaxEntries)
                    \X (1..Len(CalValues)) :
              /\ t[1] + t[2] - 1 <= mdays(year, month)
              /\ t[2] = 0 => (t[1] = 1 /\ t[3] = 1) } }

InitCal ==
    /\ script \in Scripts
    /\ pc = "call"
    /\ columns = <<>>
    /\ \E year \in Years, month \in 1..12 :
          /\ months = << <<year, month>> >>
          /\ data \in MonthFrames(year, month)
    /\ n_rows = 1
    /\ axes = <<BlankAxes>>
    /\ idx = 0
    /\ legend = FALSE
    /\ saved = FALSE
    /\ val = 0
    /\ color = <<>>

\* draw_calendar(ax, year, month, df_month, norm, cmap)
CallDrawCalendar ==
    /\ pc = "call"
    /\ axes' = <<draw_calendar(script, months[1][1], months[1][2], data)>>
    /\ pc' = "returned"
    /\ UNCHANGED <<script, columns, data, months, n_rows, idx, legend, saved,
                   val, color>>

NextCal == CallDrawCalendar

SpecCal == InitCal /\ [][NextCal]_vars

----------------------------------------------------------------------------
(* The colour of one value *)

InitColor ==
    /\ script \in Scripts
    /\ pc = "value"
    /\ columns = <<>>
    /\ data = <<>>
    /\ months = <<>>
    /\ n_rows = 0
    /\ axes = <<>>
    /\ idx = -1
    /\ legend = FALSE
    /\ saved = FALSE
    /\ val \in (-MaxAbsVal)..MaxAbsVal
    /\ color = <<>>

\* lines 57-58 (56-59 of the test variant): the colour of a cell's value
MapColor ==
    /\ pc = "value"
    /\ color' = cell_color(script, val)
    /\ pc' = "mapped"
    /\ UNCHANGED <<script, columns, data, months, n_rows, axes, idx, legend,
                   saved, val>>

NextColor == MapColor

SpecColor == InitColor /\ [][NextColor]_vars

----------------------------------------------------------------------------
(* Reading the drawing back *)

DigitVal(c) == CHOOSE d \in 0..9 : Digit(d) = c

IsDigit(c) == \E d \in 0..9 : Digit(d) = c

RECURSIVE ParseNat(_)
\* the number a sequence of digits writes
ParseNat(ds) ==
    IF Len(ds) = 0 THEN 0
    ELSE 10 * ParseNat(SubSeq(ds, 1, Len(ds) - 1)) + DigitVal(ds[Len(ds)])

AllDigits(ds) == Len(ds) > 0 /\ \A i \in 1..Len(ds) : IsDigit(ds[i])

\* the place of the first c in a string, 0 when it has none
IndexOf(str, c) ==
    IF \E i \in 1..Len(str) : str[i] = c
    THEN CHOOSE i \in 1..Len(str) : str[i] = c /\ \A j \in 1..(i - 1) : str[j] # c
    ELSE 0

\* a string "<sign><digits>.<two digits>%" read as hundredths; sign is "-",
\* "+" or nothing
IsPercent(str) ==
    LET body == IF Len(str) > 0 /\ str[1] \in {"-", "+"} THEN Tail(str) ELSE str
        dot == IndexOf(body, ".")
    IN  /\ dot > 1
        /\ Len(body) = dot + 3
        /\ body[Len(body)] = "%"
        /\ AllDigits(SubSeq(body, 1, dot - 1))
        /\ AllDigits(SubSeq(body, dot + 1, dot + 2))

PercentOf(str) ==
    LET neg == str[1] = "-"
        body == IF str[1] \in {"-", "+"} THEN Tail(str) ELSE str
        dot == IndexOf(body, ".")
        h == ParseNat(SubSeq(body, 1, dot - 1)) * Unit
               + ParseNat(SubSeq(body, dot + 1, dot + 2))
    IN  IF neg THEN -h ELSE h

\* a label "<day>\n<value>%" showing the day and the value v
LabelShows(label, day, v) ==
    LET nl == IndexOf(label, "\n")
    IN  /\ nl > 1
        /\ AllDigits(SubSeq(label, 1, nl - 1))
        /\ ParseNat(SubSeq(label, 1, nl - 1)) = day
        /\ IsPercent(SubSeq(label, nl + 1, Len(label)))
        /\ PercentOf(SubSeq(label, nl + 1, Len(label))) = v

\* the cells of the panels titled with a month that hold a label for a day
CellsOf(year, month, day) ==
    UNION { { <<a, c>> : c \in { k \in 1..Len(axes[a].patches) :
                                    /\ axes[a].title = <<month, year>>
                                    /\ axes[a].patches[k].day = day
                                    /\ axes[a].patches[k].label # <<>> } }
            : a \in 1..Len(axes) }

IsWeekday(date) == weekday(date[1], date[2], date[3]) < 5

Rendered == pc \in {"colorbar", "savefig", "done"}

\* the rows of the series dated Monday to Friday
WeekdayRows(frame) ==
    LET OnWeekday(row) == IsWeekday(row.Date)
    IN  SelectSeq(frame, OnWeekday)

\* where the cells of a panel lie
Shape(ax) ==
    [xlim |-> ax.xlim, ylim |-> ax.ylim,
     at |-> {<<ax.patches[c].xy, ax.patches[c].day>> : c \in 1..Len(ax.patches)}]

----------------------------------------------------------------------------
(* C1 *)

\* C1: after a rendering pass every date of the series that falls on Monday
\* to Friday is placed in exactly one cell over all the panels, with its own
\* value, every labelled cell is a date of the series, and a date that falls
\* on Saturday or Sunday is placed in no cell and leaves the cells of its
\* month's panel where they are without it.
C1_EveryWeekdayDateInOneCell ==
    Rendered =>
      /\ \A i \in 1..Len(data) :
           LET row == data[i]
               cells == CellsOf(row.Date[1], row.Date[2], row.Date[3])
           IN  IF IsWeekday(row.Date)
               THEN /\ Cardinality(cells) = 1
                    /\ \A ac \in cells :
                         LabelShows(axes[ac[1]].patches[ac[2]].label,
                                    row.Date[3], row.ret)
               ELSE cells = {}
      /\ \A a \in 1..Len(axes) : \A c \in 1..Len(axes[a].patches) :
           axes[a].patches[c].label # <<>> =>
             \E i \in 1..Len(data) :
               /\ axes[a].title = <<data[i].Date[2], data[i].Date[1]>>
               /\ axes[a].patches[c].day = data[i].Date[3]
      /\ \A a \in 1..Len(months) :
           LET year == months[a][1]
               month == months[a][2]
           IN  Shape(axes[a]) =
                 Shape(draw_calendar(script, year, month,
                                     WeekdayRows(MonthOf(data, year, month))))

C1_Witness ==
    /\ pc = "done"
    /\ \E i \in 1..Len(data) : IsWeekday(data[i].Date)
    /\ \E i \in 1..Len(data) : ~IsWeekday(data[i].Date)

----------------------------------------------------------------------------
(* C2 *)

\* the Monday-start weeks a month touches: day d of a month whose 1st falls
\* on weekday w lies in week (w + d - 1) \div 7
WeeksTouched(year, month) ==
    {(weekday(year, month, 1) + d - 1) \div 7 : d \in 1..mdays(year, month)}

\* the rows of a drawn panel, from its lower y limit
RowsOf(ax) == (-ax.ylim[1]) \div 2

\* C2: the grid draw_calendar produces has as many week rows as the month
\* touches Monday-start weeks (4, 5 or 6) and is 5 columns wide, every cell
\* within those rows and columns; rows, columns and the places of the cells
\* are those of the month drawn with no data at all.
C2_GridShapeFromYearMonth ==
    pc = "returned" =>
      LET year == months[1][1]
          month == months[1][2]
          ax == axes[1]
      IN  /\ RowsOf(ax) = Cardinality(WeeksTouched(year, month))
          /\ ax.ylim[1] = -2 * RowsOf(ax)
          /\ RowsOf(ax) \in {4, 5, 6}
          /\ ax.xlim = <<0, 5>>
          /\ \A c \in 1..Len(ax.patches) :
               /\ ax.patches[c].xy[1] \in 0..4
               /\ -ax.patches[c].xy[2] \in 0..(RowsOf(ax) - 1)
          /\ Shape(ax) = Shape(draw_calendar(script, year, month, <<>>))

C2_Witness ==
    /\ pc = "returned"
    /\ RowsOf(axes[1]) = 4
    /\ Len(data) > 0

----------------------------------------------------------------------------
(* C3 *)

\* C3: the colour of a value above the domain of the scale is the colour of
\* RETURN_MAX and the colour of a value below it is the colour of
\* RETURN_MIN, in both scripts; no value fails to get a colour.
C3_ColourSaturates ==
    pc = "mapped" =>
      /\ val > RETURN_MAX * Unit => color = cell_color(script, RETURN_MAX * Unit)
      /\ val < RETURN_MIN * Unit => color = cell_color(script, RETURN_MIN * Unit)
      /\ Len(color) = 3
      /\ \A k \in 1..3 : color[k] \in 0..ColourDen

C3_Witness ==
    /\ pc = "mapped"
    /\ script = "main"
    /\ val > RETURN_MAX * Unit

----------------------------------------------------------------------------
(* C4 *)

\* the first and last colours of the stop table of a script
ExtremeRed(which) ==
    LET seg == segmentdata(which)
    IN  <<seg.red[1][3], seg.green[1][3], seg.blue[1][3]>>

ExtremeGreen(which) ==
    LET seg == segmentdata(which)
        last == Len(seg.red)
    IN  <<seg.red[last][2], seg.green[last][2], seg.blue[last][2]>>

\* a colour of the stop table on the scale of the lookup table
OfStop(c) == [k \in 1..3 |-> c[k] * (N - 1) * SegDen]

\* C4: the colour returned for value 0 is pure white, the colour returned
\* for RETURN_MIN is the extreme red of the stop table and the colour
\* returned for RETURN_MAX its extreme green.
C4_ZeroWhiteExtremesExact ==
    pc = "mapped" =>
      /\ val = 0 => color = White
      /\ val = RETURN_MIN * Unit => color = OfStop(ExtremeRed(script))
      /\ val = RETURN_MAX * Unit => color = OfStop(ExtremeGreen(script))

----------------------------------------------------------------------------
(* C5 *)

\* C5: every date of the frame on Monday to Friday has a cell whose label is
\* the day, a newline, the value itself to 2 decimals and a percent sign,
\* and whose colour is the colour of the value clipped to the domain of the
\* scale.
C5_LabelUnclippedColourClipped ==
    pc = "returned" =>
      \A i \in 1..Len(data) :
        IsWeekday(data[i].Date) =>
          \E c \in 1..Len(axes[1].patches) :
            LET cell == axes[1].patches[c]
            IN  /\ cell.day = data[i].Date[3]
                /\ LabelShows(cell.label, data[i].Date[3], data[i].ret)
                /\ cell.facecolor =
                     cmap(script, norm(clipped_val(data[i].ret)))

C5_Witness ==
    /\ pc = "returned"
    /\ script = "main"
    /\ \E i \in 1..Len(data) :
         IsWeekday(data[i].Date) /\ data[i].ret > RETURN_MAX * Unit
    /\ \E i \in 1..Len(data) :
         IsWeekday(data[i].Date) /\ data[i].ret < RETURN_MIN * Unit

----------------------------------------------------------------------------
(* C6 *)

\* the months of the series, as a set
MonthSet == {<<data[i].Date[1], data[i].Date[2]>> : i \in 1..Len(data)}

Before(a, b) == a[1] < b[1] \/ (a[1] = b[1] /\ a[2] < b[2])

\* C6: the N months of the series are laid out in strictly ascending order
\* on a grid of ceil(N / 4) rows by 4 columns, the i-th at (i // 4, i % 4),
\* no two in one panel, and every panel from the N-th on is hidden and
\* holds no cell.
C6_MonthsInOrderOnGrid ==
    Rendered =>
      LET count == Len(months)
      IN  /\ count = Cardinality(MonthSet)
          /\ \A i \in 1..count : months[i] \in MonthSet
          /\ \A i \in 1..(count - 1) : Before(months[i], months[i + 1])
          /\ n_rows * 4 >= count
          /\ (n_rows - 1) * 4 < count
          /\ Len(axes) = n_rows * 4
          /\ \A i \in 0..(count - 1) :
               LET ax == PanelAt(i \div 4, i % 4)
               IN  /\ ax.title = <<months[i + 1][2], months[i + 1][1]>>
                   /\ ax.patches # <<>>
          /\ \A i, j \in 0..(count - 1) :
               i # j => PanelAt(i \div 4, i % 4).title
                          # PanelAt(j \div 4, j % 4).title
          /\ \A k \in count..(Len(axes) - 1) :
               /\ axes[k + 1].axis = "off"
               /\ axes[k + 1].patches = <<>>
               /\ axes[k + 1].texts = <<>>
               /\ axes[k + 1].title = <<>>

C6_Witness ==
    /\ pc = "done"
    /\ Len(months) = 5
    /\ Len(axes) = 8

----------------------------------------------------------------------------
(* C7 *)

\* the values a panel shows in its cells, read from the labels
ShownValues(cells) ==
    LET Labelled(cell) == cell.label # <<>>
        shown == SelectSeq(cells, Labelled)
    IN  [c \in 1..Len(shown) |->
           PercentOf(SubSeq(shown[c].label, IndexOf(shown[c].label, "\n") + 1,
                            Len(shown[c].label)))]

\* C7: each month panel has exactly one aggregate line below its grid, the
\* mean of the values in the cells of the grid to 2 decimals with a percent
\* sign, and not-a-number when the grid holds no value.
C7_AggregateIsMeanOfCells ==
    (Rendered /\ script = "main") =>
      \A a \in 1..Len(months) :
        LET ax == axes[a]
        IN  /\ Len(ax.texts) = 1
            /\ ax.texts[1].below = RowsOf(ax)
            /\ ax.texts[1].s =
                 Format2f(MeanOf(ShownValues(ax.patches)), FALSE) \o <<"%">>

----------------------------------------------------------------------------
(* C8 *)

Aborted == pc \in {"exit", "ValueError", "NameError"}

NothingDrawn == axes = <<>> /\ ~legend /\ ~saved

\* C8: a pass whose series has no entry, or whose frame has no close
\* column, aborts before any panel exists and saves nothing, and the abort
\* is final; the figure is saved only after every month's panel and the
\* colour bar have been drawn.
C8_AbortBeforeAnyGrid ==
    /\ Aborted => NothingDrawn /\ ~ENABLED Next
    /\ ~NothingDrawn =>
         /\ Len(data) > 0
         /\ possible_close_cols(columns.cols) # <<>>
    /\ Rendered => Len(data) > 0
    /\ saved =>
         /\ legend
         /\ Len(months) > 0
         /\ \A i \in 1..Len(months) :
              /\ axes[i].title = <<months[i][2], months[i][1]>>
              /\ axes[i].patches # <<>>

C8_Witness ==
    /\ pc \in {"ValueError", "NameError"}
    /\ data = <<>>
    /\ possible_close_cols(columns.cols) # <<>>

----------------------------------------------------------------------------
(* C9 *)

\* the place of a day of a month on the Monday-start grid
PlaceOf(year, month, day) ==
    LET offset == weekday(year, month, 1) + day - 1
    IN  <<offset % 7, -(offset \div 7)>>

\* C9: every cell draw_calendar renders is a day of the month, 1 to the
\* number of its days, at that day's own place in columns 0 to 4, one cell
\* per place: no position outside the month is rendered or carries a value,
\* a colour or a label.
C9_NoPaddingRendered ==
    pc = "returned" =>
      LET year == months[1][1]
          month == months[1][2]
          cells == axes[1].patches
      IN  /\ \A c \in 1..Len(cells) :
               /\ cells[c].day \in 1..mdays(year, month)
               /\ cells[c].xy = PlaceOf(year, month, cells[c].day)
               /\ cells[c].xy[1] \in 0..4
          /\ \A c, d \in 1..Len(cells) : c # d => cells[c].xy # cells[d].xy

C9_Witness ==
    /\ pc = "returned"
    /\ weekday(months[1][1], months[1][2], 1) \in 1..4
    /\ Len(data) > 0
    /\ Len(axes[1].patches) > 0

----------------------------------------------------------------------------
(* C10 *)

\* C10: every Monday-to-Friday day of the month whose date is not in the
\* frame is rendered as one cell at its place, white and with an empty
\* label; with no date in the frame at all, that is every Monday-to-Friday
\* day of the month.
C10_MissingDateIsWhiteCell ==
    pc = "returned" =>
      LET year == months[1][1]
          month == months[1][2]
          cells == axes[1].patches
      IN  \A day \in 1..mdays(year, month) :
            (/\ IsWeekday(<<year, month, day>>)
             /\ \A i \in 1..Len(data) : data[i].Date[3] # day)
            => /\ Cardinality({c \in 1..Len(cells) : cells[c].day = day}) = 1
               /\ \A c \in 1..Len(cells) :
                    cells[c].day = day =>
                      /\ cells[c].xy = PlaceOf(year, month, day)
                      /\ cells[c].facecolor = White
                      /\ cells[c].label = <<>>

C10_Witness ==
    /\ pc = "returned"
    /\ data = <<>>
    /\ Len(axes[1].patches) >= 20

====
